---- MODULE Spec2Model ----
(***************************************************************************)
(* Model of the server-sent-events broadcaster of src/src/lib.rs.          *)
(*                                                                         *)
(* One Broadcaster (the registry `clients`, a Vec of channel write-ends)   *)
(* sits behind one Mutex.  Three kinds of callers take that lock:          *)
(*   - the new_client handler  (subscribe, Broadcaster::new_client),       *)
(*   - the broadcast handler   (publish, Broadcaster::send),               *)
(*   - the task spawned by spawn_ping (the sweep, remove_stale_clients).   *)
(* Each of them is two steps: the lock is acquired, then the body runs to  *)
(* its end and the guard is dropped; a caller that finds the lock held     *)
(* blocks in lock() until it is free.  The consumer of a subscription      *)
(* (Client::poll_next, and the drop of the Client) runs outside the lock;  *)
(* it touches one channel only, so a consumer step taken in the middle of  *)
(* a loop over the registry is the same step taken before or after the     *)
(* loop's try_send on that channel, and the loops are modelled whole.      *)
(*                                                                         *)
(* A channel is the tokio bounded mpsc channel made by channel(100):       *)
(* try_send fails with Closed once the read-end is dropped, with Full when *)
(* 100 frames are undelivered; the read-end yields the queued frames in    *)
(* order and reports end-of-stream when the queue is empty and no          *)
(* write-end is left.                                                      *)
(***************************************************************************)
EXTENDS Integers, Sequences, FiniteSets, TLC

(* ------------------------------ bounds --------------------------------- *)
\* channels created in one run (the aged subscriber of Init included)
MaxClients == 2
\* broadcast calls in one run
MaxPublish == 2
\* sweeps in one run
MaxSweeps == 2
\* frames polled in one run, all consumers together.  Beyond this bound
\* the consumer of an evicted subscription reads its queue to the end (its
\* channel can no longer change, so these polls commute with every other
\* step) in the runs where its subscription is the only one made so far,
\* after the broadcast calls and the sweeps of the run.
MaxPoll == 2
\* Clients dropped by the transport in one run
MaxDrop == 1
\* sweeper tasks of one broadcaster (spawn_ping is public)
MaxSweepers == 2

(* ------------------------- program constants --------------------------- *)
\* channel(100)
Capacity == 100

\* (event, msg) arguments of broadcast
Inputs == { <<"update", "42">>, <<"internal_status", "connected">> }

Chan == 1..MaxClients
\* one broadcast handler per call, numbered in call order
Publishers == 1..MaxPublish
\* the tasks spawn_ping has spawned, numbered in spawn order
Sweepers == 1..MaxSweepers

VARIABLES
    clients,      \* Broadcaster.clients: the registry, a sequence of channels
    queue,        \* per channel: the undelivered frames
    rxOpen,       \* per channel: the read-end (Client) has not been dropped
    ended,        \* per channel: poll_next has returned Ready(None)
    created,      \* number of channels made so far
    lock,         \* the Mutex: "free", "new_client", "send", "sweep", "poisoned"
    spc,          \* per spawn_ping task: "none" (not spawned), "waiting" (for
                  \* the next tick), "ready" (tick due, in lock()), "sweeping"
    ppc,          \* per broadcast handler: "idle", "locking" (blocked in
                  \* lock()), "sending", "done"
    pmsg,         \* per broadcast handler: the formatted frame
    npc,          \* the new_client handler: "idle", "locking", "running"
    panicked,     \* an unwrap() has panicked
    \* ---- history (not read by the program) ----
    calls,        \* number of locked operations begun so far
    pop,          \* per broadcast handler: the number of its call
    sop,          \* the number of the last sweep's call
    accepted,     \* per channel: the entries whose try_send returned Ok
    yielded,      \* per channel: the entries poll_next has returned
    dropped,      \* per channel: the calls whose try_send returned Err
    last,         \* the last call that ran: what it met and what it left
    startClosed,  \* channels whose read-end was dropped when the sweep began
    idle,         \* channels kept by the last sweep, not polled since
    evictedBy,    \* per channel: the call that removed it (0: none)
    npoll,        \* polls counted against MaxPoll
    nsweeps,      \* sweeps begun
    npub          \* broadcast calls made

vars == << clients, queue, rxOpen, ended, created, lock, spc, ppc, pmsg, npc,
           panicked, calls, pop, sop, accepted, yielded, dropped, last,
           startClosed, idle, evictedBy, npoll, nsweeps, npub >>

(* ------------------------------ frames --------------------------------- *)
\* send: ["event: ", event, "\n", "data: ", msg, "\n\n"].concat()
Frame(event, msg) == "event: " \o event \o "\n" \o "data: " \o msg \o "\n\n"

\* new_client: the connected frame
ConnectedFrame == "event: internal_status\ndata: connected\n\n"

\* remove_stale_clients: the probe frame
PingFrame == "event: internal_status\ndata: ping\n\n"

\* a queued frame, tagged with the number of the call that enqueued it
Entry(bytes, op) == [bytes |-> bytes, op |-> op]

Range(s) == { s[i] : i \in 1..Len(s) }
Count(s, c) == Cardinality({ i \in 1..Len(s) : s[i] = c })
Ops(s) == { s[i].op : i \in 1..Len(s) }

(* ------------------------------ channel -------------------------------- *)
\* try_send of a channel made with channel(0): no slot at all
TrySendResultZeroCap(q, open) ==
    IF ~open THEN "Closed"
    ELSE IF Len(q) >= 0 THEN "Full"
    ELSE "Ok"

\* try_send whose capacity test is off by one
TrySendResultOffByOne(q, open) ==
    IF ~open THEN "Closed"
    ELSE IF Len(q) > Capacity THEN "Full"
    ELSE "Ok"

\* try_send that does not notice a dropped read-end
TrySendResultNoClose(q, open) ==
    IF Len(q) >= Capacity THEN "Full" ELSE "Ok"

\* try_send of an unbounded channel: never Full
TrySendResultUnbounded(q, open) ==
    IF ~open THEN "Closed" ELSE "Ok"

\* Sender::try_send on a channel whose queue is q and whose read-end is
\* open or not: Closed once the read-end is gone, Full at capacity
TrySendResult(q, open) ==
    IF ~open THEN "Closed"
    ELSE IF Len(q) >= Capacity THEN "Full"
    ELSE "Ok"

\* a channel that makes room for the new frame by discarding the oldest
TrySendOverwrite(q, open, e) ==
    IF TrySendResult(q, open) = "Ok" THEN Append(q, e)
    ELSE IF TrySendResult(q, open) = "Full" THEN Append(Tail(q), e)
    ELSE q

\* the queue after try_send(e)
TrySend(q, open, e) ==
    IF TrySendResult(q, open) = "Ok" THEN Append(q, e) ELSE q

\* a write-end of every channel kept alive outside the registry
TxCountLeaked(c) == Count(clients, c) + 1

\* write-ends of channel c alive: those the registry holds
TxCount(c) == Count(clients, c)

\* Receiver::poll_next as wrapped by Client::poll_next
PollResult(c) ==
    IF queue[c] # << >> THEN "Some"
    ELSE IF TxCount(c) = 0 THEN "None"
    ELSE "Pending"

\* the record of a call: its kind and number, its frame, the registry, the
\* queues, the read-ends and the idle consumers it met, the result of its
\* try_send per channel, the registry and the queues it left
NoResult == [c \in Chan |-> "none"]

NoCall ==
    [ kind |-> "none", op |-> 0, bytes |-> "",
      clients |-> << >>, queue |-> [c \in Chan |-> << >>],
      open |-> [c \in Chan |-> TRUE], idle |-> {}, result |-> NoResult,
      clientsAfter |-> << >>, queueAfter |-> [c \in Chan |-> << >>] ]

(* ------------------------------- lock ---------------------------------- *)
\* a lock that does not exclude: every caller gets it at once
AcquireShared(who) == lock' = who

\* Mutex::lock() returns Ok: the lock was free and the caller holds it now
Acquire(who) == lock = "free" /\ lock' = who

\* Mutex::lock() blocks: another caller holds the lock
Held == lock \notin {"free", "poisoned"}

\* a guard that is never dropped
ReleaseLeaked == lock' = lock

\* the MutexGuard is dropped at the end of the statement that took it
Release == lock' = "free"

(* ------------------------------ sweeper -------------------------------- *)
\* a task whose interval starts one period from now
SpawnedTaskAfterPeriod == "waiting"

\* the task spawn_ping spawns: interval_at(Instant::now(), ..), whose first
\* tick is due at once, so that the task goes straight to lock()
SpawnedTask == "ready"

(* ------------------------------- Init ---------------------------------- *)
\* the entries of a subscriber that has polled nothing through n - 1
\* sweeps: the connected frame, then one ping per sweep
Backlog(n) ==
    [ i \in 1..n |-> IF i = 1 THEN Entry(ConnectedFrame, 1)
                              ELSE Entry(PingFrame, i) ]

\* The state of a broadcaster whose registry was made by Broadcaster::new()
\* and whose first `tasks` sweeper tasks were spawned by spawn_ping, after
\* b calls: none (b = 0), or one new_client call followed by b - 1 sweeps
\* during which the subscriber polled nothing.
InitWith(b, tasks) ==
        /\ clients = IF b = 0 THEN << >> ELSE << 1 >>
        /\ queue = [c \in Chan |-> IF c = 1 THEN Backlog(b) ELSE << >>]
        /\ rxOpen = [c \in Chan |-> TRUE]
        /\ ended = [c \in Chan |-> FALSE]
        /\ created = IF b = 0 THEN 0 ELSE 1
        /\ lock = "free"
        /\ spc = [s \in Sweepers |->
                     IF s > tasks THEN "none"
                     ELSE IF b = 0 THEN SpawnedTask ELSE "waiting"]
        /\ ppc = [p \in Publishers |-> "idle"]
        /\ pmsg = [p \in Publishers |-> ""]
        /\ npc = "idle"
        /\ panicked = FALSE
        /\ calls = b
        /\ pop = [p \in Publishers |-> 0]
        /\ sop = IF b = 0 THEN 0 ELSE b
        /\ accepted = [c \in Chan |-> IF c = 1 THEN Backlog(b) ELSE << >>]
        /\ yielded = [c \in Chan |-> << >>]
        /\ dropped = [c \in Chan |-> {}]
        /\ last = NoCall
        /\ startClosed = {}
        /\ idle = IF b = 0 THEN {} ELSE {1}
        /\ evictedBy = [c \in Chan |-> 0]
        /\ npoll = 0
        /\ nsweeps = 0
        /\ npub = 0

\* Either the state right after Broadcaster::create() (new, then one
\* spawn_ping), or the state the program is in Capacity - 2 sweeps after
\* one new_client call: the queue of that subscriber has one slot left.
Init == \E b \in {0, Capacity - 1} : InitWith(b, 1)

(* --------------------------- new_client -------------------------------- *)
\* the new_client handler is called and broadcaster.lock() returns at once
NewClientBegin ==
    /\ npc = "idle"
    /\ created < MaxClients
    /\ Acquire("new_client")
    /\ npc' = "running"
    /\ calls' = calls + 1
    /\ UNCHANGED << clients, queue, rxOpen, ended, created, spc, ppc, pmsg,
                    panicked, pop, sop, accepted, yielded, dropped, last,
                    startClosed, idle, evictedBy, npoll, nsweeps, npub >>

\* the new_client handler is called while the lock is held: it blocks in
\* broadcaster.lock()
NewClientBlock ==
    /\ npc = "idle"
    /\ created < MaxClients
    /\ Held
    /\ npc' = "locking"
    /\ UNCHANGED << clients, queue, rxOpen, ended, created, lock, spc, ppc,
                    pmsg, panicked, calls, pop, sop, accepted, yielded,
                    dropped, last, startClosed, idle, evictedBy, npoll,
                    nsweeps, npub >>

\* the blocked new_client handler gets the lock
NewClientUnblock ==
    /\ npc = "locking"
    /\ Acquire("new_client")
    /\ npc' = "running"
    /\ calls' = calls + 1
    /\ UNCHANGED << clients, queue, rxOpen, ended, created, spc, ppc, pmsg,
                    panicked, pop, sop, accepted, yielded, dropped, last,
                    startClosed, idle, evictedBy, npoll, nsweeps, npub >>

\* Broadcaster::new_client: channel(100), try_send of the connected frame
\* .unwrap(), push of the write-end; the guard is dropped at the end of the
\* statement
NewClient ==
    /\ npc = "running"
    /\ LET c == created + 1
           e == Entry(ConnectedFrame, calls)
           result == TrySendResult(queue[c], rxOpen[c])
       IN  /\ created' = c
           /\ IF result = "Ok"
              THEN /\ queue' = [queue EXCEPT ![c] = TrySend(@, rxOpen[c], e)]
                   /\ accepted' = [accepted EXCEPT ![c] = Append(@, e)]
                   /\ clients' = Append(clients, c)
                   /\ Release
                   /\ UNCHANGED panicked
              ELSE \* unwrap() of an Err: panic with the lock held
                   /\ panicked' = TRUE
                   /\ lock' = "poisoned"
                   /\ UNCHANGED << queue, accepted, clients >>
           /\ last' = [ kind |-> "new_client", op |-> calls,
                        bytes |-> ConnectedFrame,
                        clients |-> clients, queue |-> queue,
                        open |-> rxOpen, idle |-> idle,
                        result |-> [NoResult EXCEPT ![c] = result],
                        clientsAfter |-> clients', queueAfter |-> queue' ]
    /\ npc' = "idle"
    /\ UNCHANGED << rxOpen, ended, spc, ppc, pmsg, calls, pop, sop, yielded,
                    dropped, startClosed, idle, evictedBy, npoll, nsweeps,
                    npub >>

(* ----------------------------- broadcast ------------------------------- *)
\* the broadcast handler is called with (event, msg):
\* broadcaster.lock() returns at once and send formats the frame
SendBegin(p, in) ==
    /\ ppc[p] = "idle"
    /\ p = npub + 1
    /\ Acquire("send")
    /\ ppc' = [ppc EXCEPT ![p] = "sending"]
    /\ pmsg' = [pmsg EXCEPT ![p] = Frame(in[1], in[2])]
    /\ npub' = npub + 1
    /\ calls' = calls + 1
    /\ pop' = [pop EXCEPT ![p] = calls + 1]
    /\ UNCHANGED << clients, queue, rxOpen, ended, created, spc, npc,
                    panicked, sop, accepted, yielded, dropped, last,
                    startClosed, idle, evictedBy, npoll, nsweeps >>

\* the broadcast handler is called with (event, msg) while the lock is held:
\* it blocks in broadcaster.lock()
SendBlock(p, in) ==
    /\ ppc[p] = "idle"
    /\ p = npub + 1
    /\ Held
    /\ ppc' = [ppc EXCEPT ![p] = "locking"]
    /\ pmsg' = [pmsg EXCEPT ![p] = Frame(in[1], in[2])]
    /\ npub' = npub + 1
    /\ UNCHANGED << clients, queue, rxOpen, ended, created, lock, spc, npc,
                    panicked, calls, pop, sop, accepted, yielded, dropped,
                    last, startClosed, idle, evictedBy, npoll, nsweeps >>

\* the blocked broadcast handler gets the lock
SendUnblock(p) ==
    /\ ppc[p] = "locking"
    /\ Acquire("send")
    /\ ppc' = [ppc EXCEPT ![p] = "sending"]
    /\ calls' = calls + 1
    /\ pop' = [pop EXCEPT ![p] = calls + 1]
    /\ UNCHANGED << clients, queue, rxOpen, ended, created, spc, pmsg, npc,
                    panicked, sop, accepted, yielded, dropped, last,
                    startClosed, idle, evictedBy, npoll, nsweeps, npub >>

\* a send that returns at the first try_send that fails
RECURSIVE SendLoopReturnOnErr(_, _, _)
SendLoopReturnOnErr(st, cs, e) ==
    IF cs = << >> THEN st
    ELSE LET c == Head(cs)
             result == TrySendResult(st.queue[c], rxOpen[c])
             nx == [ clients |-> st.clients,
                     queue |-> [st.queue EXCEPT
                                   ![c] = TrySend(@, rxOpen[c], e)],
                     result |-> [st.result EXCEPT ![c] = result] ]
         IN  IF result = "Ok" THEN SendLoopReturnOnErr(nx, Tail(cs), e)
             ELSE nx

\* a send that removes from the registry the entries whose try_send fails
RECURSIVE SendLoopEvict(_, _, _)
SendLoopEvict(st, cs, e) ==
    IF cs = << >> THEN st
    ELSE LET c == Head(cs)
             result == TrySendResult(st.queue[c], rxOpen[c])
         IN  SendLoopEvict(
                 [ clients |-> IF result = "Ok" THEN st.clients
                               ELSE SelectSeq(st.clients, LAMBDA d : d # c),
                   queue |-> [st.queue EXCEPT ![c] = TrySend(@, rxOpen[c], e)],
                   result |-> [st.result EXCEPT ![c] = result] ],
                 Tail(cs), e)

\* a send that tries every channel made so far, registered or not
RECURSIVE SendLoopOver(_, _, _)
SendLoopOver(st, cs, e) ==
    IF cs = << >> THEN st
    ELSE LET c == Head(cs)
             result == TrySendResult(st.queue[c], rxOpen[c])
         IN  SendLoopOver(
                 [ clients |-> st.clients,
                   queue |-> [st.queue EXCEPT ![c] = TrySend(@, rxOpen[c], e)],
                   result |-> [st.result EXCEPT ![c] = result] ],
                 Tail(cs), e)

SendLoopEverMade(st, cs, e) ==
    SendLoopOver(st, [i \in 1..created |-> i], e)

\* the loop of send over the entries cs, from the state st of the registry
\* and the channels: client.clone().try_send(msg.clone()).unwrap_or(())
RECURSIVE SendLoop(_, _, _)
SendLoop(st, cs, e) ==
    IF cs = << >> THEN st
    ELSE LET c == Head(cs)
             result == TrySendResult(st.queue[c], rxOpen[c])
         IN  SendLoop(
                 [ clients |-> st.clients,
                   queue |-> [st.queue EXCEPT ![c] = TrySend(@, rxOpen[c], e)],
                   result |-> [st.result EXCEPT ![c] = result] ],
                 Tail(cs), e)

\* Broadcaster::send runs its loop and returns; the guard is dropped
Send(p) ==
    /\ ppc[p] = "sending"
    /\ LET e == Entry(pmsg[p], pop[p])
           st == SendLoop([clients |-> clients, queue |-> queue,
                           result |-> NoResult], clients, e)
       IN  /\ clients' = st.clients
           /\ queue' = st.queue
           /\ accepted' = [c \in Chan |->
                              IF st.result[c] = "Ok"
                              THEN Append(accepted[c], e) ELSE accepted[c]]
           /\ dropped' = [c \in Chan |->
                             IF st.result[c] \in {"Full", "Closed"}
                             THEN dropped[c] \cup {e.op} ELSE dropped[c]]
           /\ last' = [ kind |-> "send", op |-> e.op, bytes |-> e.bytes,
                        clients |-> clients, queue |-> queue,
                        open |-> rxOpen, idle |-> idle,
                        result |-> st.result,
                        clientsAfter |-> st.clients,
                        queueAfter |-> st.queue ]
    /\ Release
    /\ ppc' = [ppc EXCEPT ![p] = "done"]
    /\ UNCHANGED << rxOpen, ended, created, spc, pmsg, npc, panicked, calls,
                    pop, sop, yielded, startClosed, idle, evictedBy, npoll,
                    nsweeps, npub >>

(* ------------------------------- sweep --------------------------------- *)
\* spawn_ping(me): one more task on the broadcaster
SpawnPing(s) ==
    /\ spc[s] = "none"
    /\ \A t \in Sweepers : t < s => spc[t] # "none"
    /\ spc' = [spc EXCEPT ![s] = SpawnedTask]
    /\ UNCHANGED << clients, queue, rxOpen, ended, created, lock, ppc, pmsg,
                    npc, panicked, calls, pop, sop, accepted, yielded,
                    dropped, last, startClosed, idle, evictedBy, npoll,
                    nsweeps, npub >>

\* the period of the interval has passed, task.next().await returns a tick
\* while the lock is held: the task blocks in me.lock()
SweepBlock(s) ==
    /\ spc[s] = "waiting"
    /\ nsweeps < MaxSweeps
    /\ Held
    /\ spc' = [spc EXCEPT ![s] = "ready"]
    /\ UNCHANGED << clients, queue, rxOpen, ended, created, lock, ppc, pmsg,
                    npc, panicked, calls, pop, sop, accepted, yielded,
                    dropped, last, startClosed, idle, evictedBy, npoll,
                    nsweeps, npub >>

\* task.next().await returns a tick (the period has passed, or the tick was
\* due already) and me.lock() returns
SweepBegin(s) ==
    /\ spc[s] \in {"waiting", "ready"}
    /\ nsweeps < MaxSweeps
    /\ Acquire("sweep")
    /\ spc' = [spc EXCEPT ![s] = "sweeping"]
    /\ nsweeps' = nsweeps + 1
    /\ calls' = calls + 1
    /\ sop' = calls + 1
    /\ startClosed' = { c \in Range(clients) : ~rxOpen[c] }
    /\ UNCHANGED << clients, queue, rxOpen, ended, created, ppc, pmsg, npc,
                    panicked, pop, accepted, yielded, dropped, last, idle,
                    evictedBy, npoll, npub >>

\* a sweep that takes only a closed channel for stale
PushUnlessClosed(ok_clients, c, result) ==
    IF result # "Closed" THEN Append(ok_clients, c) ELSE ok_clients

\* a sweep that keeps the entries whose probe failed
PushInverted(ok_clients, c, result) ==
    IF result # "Ok" THEN Append(ok_clients, c) ELSE ok_clients

\* a sweep that keeps every entry
PushAlways(ok_clients, c, result) == Append(ok_clients, c)

\* a sweep that pushes two clones of an accepted entry
PushTwice(ok_clients, c, result) ==
    IF result = "Ok" THEN Append(Append(ok_clients, c), c) ELSE ok_clients

\* a sweep that puts an accepted entry in front of ok_clients
PushFront(ok_clients, c, result) ==
    IF result = "Ok" THEN << c >> \o ok_clients ELSE ok_clients

\* if let Ok(()) = result { ok_clients.push(client.clone()) }
PushIfOk(ok_clients, c, result) ==
    IF result = "Ok" THEN Append(ok_clients, c) ELSE ok_clients

\* the loop of remove_stale_clients over the entries cs: the probe of each
\* entry, the accepted ones pushed to ok_clients
RECURSIVE SweepLoop(_, _, _)
SweepLoop(st, cs, e) ==
    IF cs = << >> THEN st
    ELSE LET c == Head(cs)
             result == TrySendResult(st.queue[c], rxOpen[c])
         IN  SweepLoop(
                 [ ok_clients |-> PushIfOk(st.ok_clients, c, result),
                   queue |-> [st.queue EXCEPT ![c] = TrySend(@, rxOpen[c], e)],
                   result |-> [st.result EXCEPT ![c] = result] ],
                 Tail(cs), e)

\* remove_stale_clients runs its loop, self.clients = ok_clients drops the
\* old Vec and its write-ends, and the guard is dropped
Sweep(s) ==
    /\ spc[s] = "sweeping"
    /\ LET e == Entry(PingFrame, sop)
           st == SweepLoop([ok_clients |-> << >>, queue |-> queue,
                            result |-> NoResult], clients, e)
       IN  /\ clients' = st.ok_clients
           /\ queue' = st.queue
           /\ accepted' = [c \in Chan |->
                              IF st.result[c] = "Ok"
                              THEN Append(accepted[c], e) ELSE accepted[c]]
           /\ dropped' = [c \in Chan |->
                             IF st.result[c] \in {"Full", "Closed"}
                             THEN dropped[c] \cup {e.op} ELSE dropped[c]]
           /\ idle' = Range(st.ok_clients)
           /\ evictedBy' = [c \in Chan |->
                               IF c \in Range(clients) \ Range(st.ok_clients)
                               THEN sop ELSE evictedBy[c]]
           /\ last' = [ kind |-> "sweep", op |-> e.op, bytes |-> e.bytes,
                        clients |-> clients, queue |-> queue,
                        open |-> rxOpen, idle |-> idle,
                        result |-> st.result,
                        clientsAfter |-> st.ok_clients,
                        queueAfter |-> st.queue ]
    /\ Release
    /\ spc' = [spc EXCEPT ![s] = "waiting"]
    /\ UNCHANGED << rxOpen, ended, created, ppc, pmsg, npc, panicked, calls,
                    pop, sop, yielded, startClosed, npoll, nsweeps, npub >>

(* ------------------------------ consumer ------------------------------- *)
\* the broadcast calls and the sweeps of the run are over and one
\* subscription has been made so far
Epilogue ==
    /\ lock = "free"
    /\ created = 1
    /\ \A p \in Publishers : ppc[p] = "done"
    /\ nsweeps = MaxSweeps

\* a read-end that takes the newest frame
PollItemLast(q) == q[Len(q)]

\* the frame Receiver::poll_next takes from the queue q: the oldest
PollItem(q) == Head(q)

\* Client::poll_next: Ready(Some(v)) => Ready(Some(Ok(v))), Ready(None) =>
\* Ready(None); Pending changes nothing
PollNext(c) ==
    /\ c <= created
    /\ rxOpen[c]
    /\ ~ended[c]
    /\ PollResult(c) # "Pending"
    /\ npoll < MaxPoll \/ (TxCount(c) = 0 /\ Epilogue)
    /\ IF PollResult(c) = "Some"
       THEN /\ yielded' = [yielded EXCEPT ![c] = Append(@, PollItem(queue[c]))]
            /\ queue' = [queue EXCEPT ![c] = Tail(@)]
            /\ idle' = idle \ {c}
            /\ npoll' = IF npoll < MaxPoll THEN npoll + 1 ELSE npoll
            /\ UNCHANGED ended
       ELSE /\ ended' = [ended EXCEPT ![c] = TRUE]
            /\ UNCHANGED << yielded, queue, idle, npoll >>
    /\ UNCHANGED << clients, rxOpen, created, lock, spc, ppc, pmsg, npc,
                    panicked, calls, pop, sop, accepted, dropped, last,
                    startClosed, evictedBy, nsweeps, npub >>

\* the transport drops the Client: the Receiver closes the channel and
\* discards what is queued
DropClient(c) ==
    /\ c <= created
    /\ rxOpen[c]
    /\ Cardinality({ d \in Chan : ~rxOpen[d] }) < MaxDrop
    /\ rxOpen' = [rxOpen EXCEPT ![c] = FALSE]
    /\ queue' = [queue EXCEPT ![c] = << >>]
    /\ UNCHANGED << clients, ended, created, lock, spc, ppc, pmsg, npc,
                    panicked, calls, pop, sop, accepted, yielded, dropped,
                    last, startClosed, idle, evictedBy, npoll, nsweeps,
                    npub >>

(* ------------------------------- Next ---------------------------------- *)
Next ==
    \/ NewClientBegin
    \/ NewClientBlock
    \/ NewClientUnblock
    \/ NewClient
    \/ \E p \in Publishers, in \in Inputs : SendBegin(p, in)
    \/ \E p \in Publishers, in \in Inputs : SendBlock(p, in)
    \/ \E p \in Publishers : SendUnblock(p)
    \/ \E p \in Publishers : Send(p)
    \/ \E s \in Sweepers : SweepBlock(s)
    \/ \E s \in Sweepers : SweepBegin(s)
    \/ \E s \in Sweepers : Sweep(s)
    \/ \E c \in Chan : PollNext(c)
    \/ \E c \in Chan : DropClient(c)

\* the program: Broadcaster::create() once, then the handlers, the sweeper
\* and the consumers
Spec == Init /\ [][Next]_vars

(* ------------------------------ fairness ------------------------------- *)
\* the steps of the callers of the lock and the drop of a Client, every
\* broadcast call with the same arguments: what a consumer polls and the
\* bytes of a frame play no part in the lock or in the sweeper's schedule
CallerNext ==
    \/ NewClientBegin
    \/ NewClientBlock
    \/ NewClientUnblock
    \/ NewClient
    \/ \E p \in Publishers : SendBegin(p, << "update", "42" >>)
    \/ \E p \in Publishers : SendBlock(p, << "update", "42" >>)
    \/ \E p \in Publishers : SendUnblock(p)
    \/ \E p \in Publishers : Send(p)
    \/ \E s \in Sweepers : SweepBlock(s)
    \/ \E s \in Sweepers : SweepBegin(s)
    \/ \E s \in Sweepers : Sweep(s)
    \/ \E c \in Chan : DropClient(c)

\* What the runtime guarantees.  A caller that holds the lock runs its body
\* to the end: there is no await and no blocking call between lock() and the
\* drop of the guard.  A caller blocked in lock() gets the lock in the end
\* if it is free again and again, and the interval of a sweeper task fires
\* again and again.  Nothing is assumed of the callers of the handlers or
\* of the consumers.
Fairness ==
    /\ WF_vars(NewClient)
    /\ \A p \in Publishers : WF_vars(Send(p))
    /\ \A s \in Sweepers : WF_vars(Sweep(s))
    /\ SF_vars(NewClientUnblock)
    /\ \A p \in Publishers : SF_vars(SendUnblock(p))
    /\ \A s \in Sweepers : SF_vars(SweepBegin(s))

FairSpec == Init /\ [][CallerNext]_vars /\ Fairness

(* ----------------------------- public API ------------------------------ *)
\* the state after Data::new(Mutex::new(Broadcaster::new())): no task yet
ApiInit == InitWith(0, 0)

\* the steps of a program that calls the public functions itself:
\* spawn_ping on its broadcaster, besides the calls of CallerNext
ApiNext ==
    \/ \E s \in Sweepers : SpawnPing(s)
    \/ CallerNext

ApiSpec == ApiInit /\ [][ApiNext]_vars

(* ------------------------------ claims --------------------------------- *)
IsPrefix(s, t) == Len(s) <= Len(t) /\ s = SubSeq(t, 1, Len(s))
Increasing(s) == \A i \in 1..(Len(s) - 1) : s[i].op < s[i + 1].op
LastEntry == Entry(last.bytes, last.op)
Registered(c) == c \in Range(clients)
Evicted(c) == evictedBy[c] # 0
PublishOps == { pop[p] : p \in { q \in Publishers : ppc[q] = "done" } }

\* once a sweep has removed a channel, it is not in the registry and no
\* call numbered after that sweep has a frame accepted by it or as much as
\* tries it
NothingAfterEviction ==
    \A c \in 1..created :
        Evicted(c) =>
            /\ ~Registered(c)
            /\ \A i \in 1..Len(accepted[c]) : accepted[c][i].op < evictedBy[c]
            /\ \A o \in dropped[c] : o <= evictedBy[c]

\* C1: the try_send of the connected frame in new_client never fails (no
\* panic), and the connected frame of a subscription is the first thing its
\* stream yields: it heads the queue until it is polled, the first yielded
\* entry is the one new_client enqueued (no broadcast call's), and the
\* stream never ends before it.
C1_ConnectedFirst ==
    /\ ~panicked
    /\ last.kind = "new_client" =>
           \A c \in Chan : last.result[c] \in {"none", "Ok"}
    /\ \A c \in 1..created :
           /\ accepted[c] # << >>
           /\ accepted[c][1].bytes = ConnectedFrame
           /\ \A p \in Publishers : pop[p] # accepted[c][1].op
           /\ (rxOpen[c] /\ yielded[c] = << >>) =>
                  (queue[c] # << >> /\ Head(queue[c]) = accepted[c][1])
           /\ yielded[c] # << >> => yielded[c][1] = accepted[c][1]
           /\ ended[c] => yielded[c] # << >>

\* a subscription made by new_client has yielded its first frame after
\* another call enqueued to it
C1_Witness ==
    /\ created >= 2
    /\ yielded[2] # << >>
    /\ Len(accepted[2]) >= 2

\* C2 as stated: a send enqueues its frame to every registered subscriber
\* whose queue is not full.
C2_Original ==
    last.kind = "send" =>
        \A c \in Range(last.clients) :
            Len(last.queue[c]) < Capacity =>
                last.queueAfter[c] = Append(last.queue[c], LastEntry)

\* C2 amended: a send enqueues its frame to every registered subscriber
\* whose queue is not full and whose read-end has not been dropped; the
\* frames a subscriber accepted are in call order and its stream yields
\* them in that order, so no frame of a later publish comes before it.
C2_FanOut ==
    /\ last.kind = "send" =>
           \A c \in Range(last.clients) :
               (Len(last.queue[c]) < Capacity /\ last.open[c]) =>
                   /\ last.result[c] = "Ok"
                   /\ last.queueAfter[c] = Append(last.queue[c], LastEntry)
    /\ \A c \in 1..created :
           /\ Increasing(accepted[c])
           /\ IsPrefix(yielded[c], accepted[c])
           /\ last.kind = "send" /\ last.result[c] = "Ok" =>
                  LastEntry \in Range(accepted[c])

\* two publishes were accepted by one subscriber, and its stream has
\* yielded the frame of the earlier one and not yet that of the later one
C2_Witness ==
    \E c \in 1..created :
        /\ \A p \in Publishers : ppc[p] = "done" /\ pop[p] \in Ops(accepted[c])
        /\ \E p \in Publishers :
               /\ pop[p] \in Ops(yielded[c])
               /\ \E q \in Publishers :
                      pop[q] > pop[p] /\ pop[q] \notin Ops(yielded[c])

\* C3: what the stream has yielded followed by what is queued is exactly
\* what the channel accepted, in call order (after the drop of the
\* read-end: a prefix of it); a send or a sweep appends its frame to the
\* queue when its try_send returns Ok and leaves the queue alone otherwise.
C3_StreamIsAccepted ==
    /\ \A c \in 1..created :
           /\ Increasing(accepted[c])
           /\ rxOpen[c] => accepted[c] = yielded[c] \o queue[c]
           /\ ~rxOpen[c] => IsPrefix(yielded[c], accepted[c])
           /\ dropped[c] \cap Ops(accepted[c]) = {}
    /\ last.kind \in {"send", "sweep"} =>
           \A c \in Chan :
               /\ last.result[c] = "Ok" =>
                      last.queueAfter[c] = Append(last.queue[c], LastEntry)
               /\ last.result[c] # "Ok" => last.queueAfter[c] = last.queue[c]

\* a stream has yielded the connected frame and then the frame of a
\* publish or of a probe, while another call's frame was rejected for it
C3_Witness ==
    \E c \in 1..created :
        /\ Len(yielded[c]) >= 2
        /\ yielded[c][2].op \in PublishOps \cup {sop}
        /\ Len(accepted[c]) >= 3

\* C4: no queue ever holds more than 100 frames; a send or a sweep that
\* meets a queue holding 100 frames gets Full and leaves it as it was, and
\* a call that holds the lock can always run to its end, whatever the
\* consumers do.
C4_Bounded ==
    /\ \A c \in Chan : Len(queue[c]) <= Capacity
    /\ last.kind \in {"send", "sweep"} =>
           \A c \in Range(last.clients) :
               Len(last.queue[c]) = Capacity =>
                   /\ last.result[c] = "Full"
                   /\ last.queueAfter[c] = last.queue[c]
    /\ \A p \in Publishers : ppc[p] = "sending" => ENABLED Send(p)
    /\ \A s \in Sweepers : spc[s] = "sweeping" => ENABLED Sweep(s)

\* a sweep has met a full queue for which a publish had been dropped
C4_Witness ==
    /\ last.kind = "sweep"
    /\ \E c \in Range(last.clients) :
           /\ Len(last.queue[c]) = Capacity
           /\ dropped[c] \cap PublishOps # {}

\* C5: a subscriber whose queue holds 100 frames when a sweep probes it is
\* not in the registry that sweep leaves; it never comes back and no later
\* call enqueues to it or tries to.
C5_FullEvicted ==
    /\ last.kind = "sweep" =>
           \A c \in Range(last.clients) :
               Len(last.queue[c]) = Capacity =>
                   c \notin Range(last.clientsAfter)
    /\ NothingAfterEviction

\* a subscriber with a live read-end was evicted, and a later publish ran
\* over a registry that was not empty
C5_Witness ==
    /\ last.kind = "send"
    /\ last.clients # << >>
    /\ \E c \in 1..created :
           Evicted(c) /\ rxOpen[c] /\ last.op > evictedBy[c]

\* C6 as stated: a registered subscriber whose queue has room when a sweep
\* probes it gets the ping frame and is in the registry the sweep leaves.
C6_Original ==
    last.kind = "sweep" =>
        \A c \in Range(last.clients) :
            Len(last.queue[c]) < Capacity =>
                /\ last.queueAfter[c] =
                       Append(last.queue[c], Entry(PingFrame, last.op))
                /\ c \in Range(last.clientsAfter)

\* C6 amended: a registered subscriber whose queue has room and whose
\* read-end has not been dropped when a sweep probes it gets the ping frame
\* and is in the registry the sweep leaves; and every publish that ran
\* after a subscriber's new_client and before its eviction was tried on it.
C6_RoomSurvives ==
    /\ last.kind = "sweep" =>
           \A c \in Range(last.clients) :
               (Len(last.queue[c]) < Capacity /\ last.open[c]) =>
                   /\ last.bytes = PingFrame
                   /\ last.queueAfter[c] = Append(last.queue[c], LastEntry)
                   /\ c \in Range(last.clientsAfter)
    /\ \A c \in 1..created :
           accepted[c] # << >> =>
               \A o \in PublishOps :
                   (accepted[c][1].op < o /\ (Evicted(c) => o < evictedBy[c]))
                       => o \in Ops(accepted[c]) \cup dropped[c]

\* a subscriber accepted the ping of a sweep, stayed registered and then
\* accepted a publish
C6_Witness ==
    /\ last.kind = "send"
    /\ \E c \in Range(last.clients) :
           /\ last.result[c] = "Ok"
           /\ sop # 0
           /\ sop \in Ops(accepted[c])

\* C7 as stated: a registered subscriber that polled nothing from one sweep
\* to the next is not in the registry the second sweep leaves.
C7_Original ==
    last.kind = "sweep" =>
        \A c \in Range(last.clients) \cap last.idle :
            c \notin Range(last.clientsAfter)

\* C7 amended: a registered subscriber that polled nothing from one sweep
\* to the next is evicted by the second sweep exactly when its queue is
\* then full or its read-end has been dropped; otherwise it gets the ping
\* and stays.  Once evicted it never comes back and no later call enqueues
\* to it, while a send still enqueues to every registered subscriber with
\* room and a live read-end.
C7_IdleEviction ==
    /\ last.kind = "sweep" =>
           \A c \in Range(last.clients) \cap last.idle :
               c \notin Range(last.clientsAfter)
                   <=> (Len(last.queue[c]) = Capacity \/ ~last.open[c])
    /\ last.kind = "send" =>
           \A c \in Range(last.clients) :
               (Len(last.queue[c]) < Capacity /\ last.open[c]) =>
                   last.result[c] = "Ok"
    /\ NothingAfterEviction

\* a sweep evicted a subscriber that had polled nothing since the sweep
\* before, and kept another one
C7_Witness ==
    /\ last.kind = "sweep"
    /\ last.clientsAfter # << >>
    /\ \E c \in Range(last.clients) \cap last.idle :
           c \notin Range(last.clientsAfter)

C9_DroppedEvicted ==
    /\ last.kind = "sweep" =>
           \A c \in Range(last.clients) :
               ~last.open[c] =>
                   /\ last.result[c] = "Closed"
                   /\ c \notin Range(last.clientsAfter)
    /\ lock # "sweep" => startClosed \cap Range(clients) = {}

\* a sweep that began with a dropped read-end in the registry is over
C9_Witness ==
    /\ lock # "sweep"
    /\ last.kind = "sweep"
    /\ startClosed # {}

\* C10: a send leaves the registry as it met it, entries and order, also
\* when its try_send fails for some of them; the registry does not change
\* while a send holds the lock.
C10_PublishKeepsRegistry ==
    /\ last.kind = "send" => last.clientsAfter = last.clients
    /\ (lock = "send" /\ last.kind # "none") => clients = last.clientsAfter

\* a send met a full queue and a closed channel
C10_Witness ==
    /\ last.kind = "send"
    /\ \E c \in Range(last.clients) : last.result[c] = "Full"
    /\ \E c \in Range(last.clients) : last.result[c] = "Closed"

Before(s, a, b) ==
    \E i, j \in 1..Len(s) : i < j /\ s[i].op = a /\ s[j].op = b

\* the callers that hold the lock
Holders ==
    { << "send", p >> : p \in { q \in Publishers : ppc[q] = "sending" } }
        \cup { << "sweep", s >> : s \in { t \in Sweepers : spc[t] = "sweeping" } }
        \cup (IF npc = "running" THEN { << "new_client", 1 >> } ELSE {})

\* C12: at most one caller holds the lock, and the lock says which kind,
\* so that no sweep, new_client or other send runs between the first and
\* the last try_send of a send; any two finished broadcast calls are seen
\* in one order by every subscriber that accepted the frames of both, the
\* order in which they got the lock.
C12_PublishAtomic ==
    /\ Cardinality(Holders) <= 1
    /\ \A h \in Holders : lock = h[1]
    /\ lock \in {"send", "sweep", "new_client"} => Holders # {}
    /\ \A p, q \in Publishers :
           (ppc[p] = "done" /\ ppc[q] = "done" /\ pop[p] < pop[q]) =>
               \A c \in 1..created :
                   (pop[p] \in Ops(accepted[c]) /\ pop[q] \in Ops(accepted[c]))
                       => (/\ Before(accepted[c], pop[p], pop[q])
                           /\ ~Before(accepted[c], pop[q], pop[p]))

\* two broadcast calls were blocked in lock() at the same time; the one
\* called second got the lock first, and two subscribers accepted the
\* frames of both
C12_Witness ==
    /\ \A p \in Publishers : ppc[p] = "done"
    /\ pop[2] < pop[1]
    /\ \E c, d \in 1..created :
           /\ c # d
           /\ {pop[1], pop[2]} \subseteq Ops(accepted[c])
           /\ {pop[1], pop[2]} \subseteq Ops(accepted[d])

\* C13: the lock is never poisoned; whoever holds it is the one caller that
\* is running its body, and that body can always take its step (nothing in
\* it waits); a caller takes the lock only when it is free and holds none.
\* Under fair scheduling a caller blocked in lock() gets the lock, and a
\* caller that holds the lock ends and leaves it free: new_client, every
\* broadcast call and every sweeper task.
C13_NoDeadlock ==
    /\ [](/\ lock # "poisoned"
          /\ Cardinality(Holders) <= 1
          /\ Held <=> Holders # {}
          /\ npc = "running" => ENABLED NewClient
          /\ \A p \in Publishers : ppc[p] = "sending" => ENABLED Send(p)
          /\ \A s \in Sweepers : spc[s] = "sweeping" => ENABLED Sweep(s))
    /\ (npc = "locking") ~> (npc = "running")
    /\ (npc = "running") ~> (npc = "idle" /\ lock # "new_client")
    /\ \A p \in Publishers : (ppc[p] = "locking") ~> (ppc[p] = "sending")
    /\ \A p \in Publishers : (ppc[p] = "sending") ~> (ppc[p] = "done")
    /\ \A s \in Sweepers : (spc[s] = "ready") ~> (spc[s] = "sweeping")
    /\ \A s \in Sweepers : (spc[s] = "sweeping") ~> (spc[s] = "waiting")
    /\ Held ~> (lock = "free")

\* a sweep holds the lock while new_client and a broadcast call are blocked
\* in lock()
C13_Witness ==
    /\ lock = "sweep"
    /\ npc = "locking"
    /\ \E p \in Publishers : ppc[p] = "locking"

\* the entries of s whose bytes are b
CountBytes(s, b) == Cardinality({ i \in 1..Len(s) : s[i].bytes = b })

\* C14 as stated: every subscription is sent the connected frame exactly
\* once: of the frames its channel accepted, new_client's, broadcast's and
\* the sweeps', one and only one is the connected frame.
C14_ConnectedOnce ==
    \A c \in 1..created : CountBytes(accepted[c], ConnectedFrame) = 1

\* C15: the registry holds a channel at most once, so a send tries each
\* subscriber once; the calls whose frames a channel accepted go strictly
\* up (no call has two entries), a send makes a queue longer by one
\* frame at most, and a call whose frame was dropped for a subscriber has
\* no entry in what its channel accepted, then or later.
C15_AtMostOnce ==
    /\ \A c \in Chan : Count(clients, c) <= 1
    /\ \A c \in 1..created :
           /\ Increasing(accepted[c])
           /\ \A o \in dropped[c] : o \notin Ops(accepted[c])
    /\ last.kind = "send" =>
           \A c \in Chan :
               /\ Len(last.queueAfter[c]) <= Len(last.queue[c]) + 1
               /\ Count(last.queueAfter[c], LastEntry) <= 1

\* the frame of a broadcast call was dropped for a subscriber whose queue
\* was full, and that subscriber, still listening, accepted a later frame
C15_Witness ==
    \E c \in 1..created :
        /\ rxOpen[c]
        /\ \E o \in dropped[c] \cap PublishOps :
               \E i \in 1..Len(accepted[c]) : accepted[c][i].op > o

\* C16: the sweeper task of create() never ends: it is spawned, the lock it
\* unwraps is never poisoned, and until its first sweep it is never waiting
\* for a tick (the first tick is due at once).  Under fair scheduling every
\* sweep it begins ends, and after every sweep another one begins, as long
\* as the bound on the sweeps of a run allows, whatever the handlers and
\* the consumers do.
C16_SweeperRuns ==
    /\ [](/\ spc[1] \in {"waiting", "ready", "sweeping"}
          /\ lock # "poisoned"
          /\ sop = 0 => spc[1] = "ready")
    /\ \A n \in 0..(MaxSweeps - 1) : (nsweeps = n) ~> (nsweeps = n + 1)
    /\ (spc[1] = "sweeping") ~> (spc[1] = "waiting")

\* the sweeps of the run are over, and so are the subscribe and broadcast
\* calls and a drop of a Client
C16_Witness ==
    /\ nsweeps = MaxSweeps
    /\ spc[1] = "waiting"
    /\ created = MaxClients
    /\ \A p \in Publishers : ppc[p] = "done"
    /\ \E c \in Chan : ~rxOpen[c]

\* C17: the registry a sweep leaves is the sequence of the entries it met
\* whose probe returned Ok, in the order it met them: nothing else is kept,
\* nothing is added or repeated; every entry left has the probe of that
\* sweep as the last frame its channel accepted, and this is the registry
\* until the next call changes it.
C17_SweepPartition ==
    last.kind = "sweep" =>
        /\ last.clientsAfter =
               SelectSeq(last.clients, LAMBDA c : last.result[c] = "Ok")
        /\ \A c \in Chan :
               Count(last.clientsAfter, c) <= Count(last.clients, c)
        /\ \A c \in Range(last.clientsAfter) :
               /\ accepted[c] # << >>
               /\ accepted[c][Len(accepted[c])] = Entry(PingFrame, last.op)
        /\ \A c \in Range(last.clients) \ Range(last.clientsAfter) :
               last.op \in dropped[c]
        /\ clients = last.clientsAfter

\* a sweep met two entries, rejected the first and kept the second
C17_Witness ==
    /\ last.kind = "sweep"
    /\ Len(last.clients) = 2
    /\ last.clientsAfter = << last.clients[2] >>

\* C18 as stated: the broadcaster has exactly one sweeper task, whatever
\* public functions are called.
C18_OneSweeper ==
    Cardinality({ s \in Sweepers : spc[s] # "none" }) = 1

\* the sweeps a subscriber needs to be evicted when it polls nothing: one
\* per free slot of its queue, and one more that finds it full; one when
\* its Client was dropped
SweepsToEvict(c) ==
    IF rxOpen[c] THEN Capacity - Len(queue[c]) + 1 ELSE 1

\* C19: a channel whose consumer has polled nothing has accepted 99 probes
\* at most, the connected frame taking the first of its 100 slots; and
\* under fair scheduling a registered subscriber whose consumer polls
\* nothing is evicted, with or without broadcast calls, whenever the sweeps
\* it takes to fill its queue and find it full are within the bound on the
\* sweeps of a run.
C19_IdleEvicted ==
    /\ [](\A c \in 1..created :
              yielded[c] = << >> =>
                  CountBytes(accepted[c], PingFrame) <= Capacity - 1)
    /\ \A c \in Chan :
           (/\ Registered(c)
            /\ yielded[c] = << >>
            /\ SweepsToEvict(c) <= MaxSweeps - nsweeps)
               ~> (~Registered(c) \/ yielded[c] # << >>)

\* without any broadcast call, a subscriber whose consumer polled nothing
\* was evicted by the sweep that followed the 99 sweeps it survived
C19_Witness ==
    /\ npub = 0
    /\ \E c \in 1..created :
           /\ Evicted(c)
           /\ rxOpen[c]
           /\ yielded[c] = << >>
           /\ Len(accepted[c]) = Capacity
           /\ CountBytes(accepted[c], PingFrame) = Capacity - 1

\* C20: the first frame a channel accepts is the connected frame of its
\* new_client call; every other frame it accepts is that of a call that got
\* the lock after that new_client and, when the subscriber was evicted,
\* before the sweep that evicted it; what is yielded and what is queued are
\* pieces of what was accepted; and a send or a sweep touches no channel
\* that is not in the registry it meets.
C20_NoReplay ==
    /\ \A c \in 1..created :
           /\ accepted[c] # << >>
           /\ accepted[c][1].bytes = ConnectedFrame
           /\ \A i \in 2..Len(accepted[c]) :
                  /\ accepted[c][i].op > accepted[c][1].op
                  /\ Evicted(c) => accepted[c][i].op < evictedBy[c]
           /\ IsPrefix(yielded[c], accepted[c])
           /\ queue[c] = IF rxOpen[c]
                         THEN SubSeq(accepted[c], Len(yielded[c]) + 1,
                                     Len(accepted[c]))
                         ELSE << >>
    /\ \A c \in Chan \ (1..created) : accepted[c] = << >> /\ queue[c] = << >>
    /\ last.kind \in {"send", "sweep"} =>
           \A c \in Chan \ Range(last.clients) :
               /\ last.result[c] = "none"
               /\ last.queueAfter[c] = last.queue[c]

\* a broadcast call ran before a subscription was made and another one
\* after it: the subscriber accepted the second; and a subscriber evicted
\* before that second call, its Client alive, was there for the first
C20_Witness ==
    \E c, d \in 1..created :
        /\ c # d
        /\ \E p, q \in Publishers :
               /\ ppc[p] = "done" /\ ppc[q] = "done"
               /\ pop[p] < accepted[c][1].op
               /\ pop[q] \in Ops(accepted[c])
               /\ pop[p] \in Ops(accepted[d])
               /\ Evicted(d) /\ rxOpen[d] /\ evictedBy[d] < pop[q]

====
